---- MODULE Spec2Model ----
(***************************************************************************)
(* Model of scrap_table.py: a handler that fetches the latest seismic      *)
(* features from a feature service and reconciles them into a key-value    *)
(* table keyed by "id" (replace mode or upsert mode).                      *)
(***************************************************************************)
EXTENDS Integers, Sequences, FiniteSets, TLC

(***************************************************************************)
(* Bounds of the model.                                                    *)
(***************************************************************************)
\* longest feature list a response of the feature service carries
MaxFeat == 2
\* longest feature list when two invocations share the table
MaxFeatTwo == 1
\* longest feature list when the service answers with the varied shapes
MaxShapeFeat == 1

Procs == {1, 2}

(***************************************************************************)
(* Python values.  One record shape for every kind, so that values of      *)
(* different kinds can be compared.                                        *)
(***************************************************************************)
PyNone == [k |-> "none", n |-> 0, s |-> ""]
IntV(n) == [k |-> "int", n |-> n, s |-> ""]
StrV(s) == [k |-> "str", n |-> 0, s |-> s]
BoolV(b) == [k |-> "bool", n |-> IF b THEN 1 ELSE 0, s |-> ""]
\* decimal.Decimal built from a string
DecimalV(s) == [k |-> "decimal", n |-> 0, s |-> s]
\* an int beyond the range of the datetime type, held by its digits
BigIntV(s) == [k |-> "bigint", n |-> 1, s |-> s]

\* bool(v), as the operator `or` tests it
Truthy(v) ==
    CASE v.k = "none" -> FALSE
      [] v.k = "int" -> v.n # 0
      [] v.k = "bool" -> v.n = 1
      [] v.k = "str" -> v.s # ""
      [] OTHER -> TRUE

\* a or b
PyOr(a, b) == IF Truthy(a) THEN a ELSE b

Digit(d) ==
    CASE d = 0 -> "0" [] d = 1 -> "1" [] d = 2 -> "2" [] d = 3 -> "3"
      [] d = 4 -> "4" [] d = 5 -> "5" [] d = 6 -> "6" [] d = 7 -> "7"
      [] d = 8 -> "8" [] d = 9 -> "9"

RECURSIVE IntStr(_)
IntStr(n) ==
    IF n < 0 THEN "-" \o IntStr(-n)
    ELSE IF n < 10 THEN Digit(n)
    ELSE IntStr(n \div 10) \o Digit(n % 10)

\* str(v)
PyStr(v) ==
    CASE v.k = "none" -> "None"
      [] v.k = "int" -> IntStr(v.n)
      [] v.k = "bool" -> (IF v.n = 1 THEN "True" ELSE "False")
      [] OTHER -> v.s

\* a dict is a function from the keys it holds to values
EmptyDict == [x \in {} |-> PyNone]
\* d.get(key)
Get(d, key) == IF key \in DOMAIN d THEN d[key] ELSE PyNone
\* a or b, for dicts: an empty or missing dict is falsy
DictOr(a, b) == IF DOMAIN a # {} THEN a ELSE b

(***************************************************************************)
(* parse_date: epoch milliseconds to ISO-8601 at the fixed offset UTC-5.   *)
(***************************************************************************)
\* timezone(timedelta(hours=-5))
HoursBehindUtc == 5

Pad2(x) == IF x < 10 THEN "0" \o IntStr(x) ELSE IntStr(x)
Pad3(x) == IF x < 100 THEN "0" \o Pad2(x) ELSE IntStr(x)
Pad4(x) == IF x < 1000 THEN "0" \o Pad3(x) ELSE IntStr(x)

\* date.isoformat() of the day `days` days after 1970-01-01 (proleptic
\* Gregorian calendar)
IsoDate(days) ==
    LET z == days + 719468
        era == z \div 146097
        doe == z - era * 146097
        yoe == (doe - doe \div 1460 + doe \div 36524 - doe \div 146096) \div 365
        doy == doe - (365 * yoe + yoe \div 4 - yoe \div 100)
        mp == (5 * doy + 2) \div 153
        d == doy - (153 * mp + 2) \div 5 + 1
        m == IF mp < 10 THEN mp + 3 ELSE mp - 9
        y == yoe + era * 400 + (IF m <= 2 THEN 1 ELSE 0)
    IN Pad4(y) \o "-" \o Pad2(m) \o "-" \o Pad2(d)

\* utcfromtimestamp(ms / 1000) moved to UTC-5, then isoformat(): the
\* fraction is printed, as six digits, only when it is not zero
IsoFormat(ms) ==
    LET local == ms - HoursBehindUtc * 3600 * 1000
        secs == local \div 1000
        frac == local % 1000
        sod == secs % 86400
    IN IsoDate(secs \div 86400) \o "T" \o Pad2(sod \div 3600) \o ":"
           \o Pad2((sod % 3600) \div 60) \o ":" \o Pad2(sod % 60)
           \o (IF frac = 0 THEN "" ELSE "." \o Pad3(frac) \o "000")
           \o "-0" \o IntStr(HoursBehindUtc) \o ":00"

\* isinstance(val, (int, float)): a bool is an int
IsNumber(v) == v.k \in {"int", "bool", "bigint"}

\* the conversion raises (year out of range) and str(val) is returned
DateRaises(v) == v.k = "bigint"

parse_date(v) ==
    IF v.k = "none" THEN PyNone
    ELSE IF IsNumber(v) /\ ~DateRaises(v) THEN StrV(IsoFormat(v.n))
    ELSE StrV(PyStr(v))

(***************************************************************************)
(* uuid.uuid4(): the n-th token generated in a run of the system.  Tokens  *)
(* are pairwise distinct and distinct from every source-provided id.       *)
(***************************************************************************)
Uuid4(n) == "uuid-" \o IntStr(n)

(***************************************************************************)
(* fetch_latest_sismos: the mapping of one feature to one item.            *)
(* A feature is [properties, attributes, coordinates]; a missing mapping   *)
(* is the empty dict and a missing geometry or coordinate list the empty   *)
(* list (`or` treats them alike).                                          *)
(***************************************************************************)
Attrs(feat) == DictOr(DictOr(feat.properties, feat.attributes), EmptyDict)

\* coords = geom.get("coordinates") or []
Coords(feat) == feat.coordinates

\* lon (i = 1) and lat (i = 2): the i-th coordinate when the list has one,
\* else the flat attribute, a falsy one replaced by ""
Coordinate(feat, i, key) ==
    IF Len(Coords(feat)) >= i THEN Coords(feat)[i]
    ELSE PyOr(Get(Attrs(feat), key), StrV(""))

\* str(x) if x != "" else ""
CoordStr(v) == IF v # StrV("") THEN PyStr(v) ELSE ""

\* fecha_iso or ""
FechaIso(attrs) ==
    PyStr(PyOr(parse_date(PyOr(Get(attrs, "fechaevento"), Get(attrs, "FECHAEVENTO"))),
               StrV("")))

\* the value the id is taken from, before the uuid fallback
IdSource(attrs) ==
    PyOr(PyOr(Get(attrs, "code"), Get(attrs, "objectid")), Get(attrs, "OBJECTID"))

\* whether uuid.uuid4() is evaluated for this feature (`or` short-circuits)
NeedsUuid(feat) == ~Truthy(IdSource(Attrs(feat)))

ItemId(attrs, token) == PyStr(PyOr(IdSource(attrs), StrV(token)))

\* raw: every attribute, None replaced by ""
Raw(attrs) ==
    [key \in DOMAIN attrs |->
        IF attrs[key].k = "none" THEN StrV("") ELSE attrs[key]]

MakeItem(feat, token) ==
    LET attrs == Attrs(feat) IN
    [ id |-> ItemId(attrs, token),
      fechaevento |-> FechaIso(attrs),
      magnitud |->
        PyStr(PyOr(PyOr(Get(attrs, "magnitud"), Get(attrs, "mag")), StrV(""))),
      lat |-> CoordStr(Coordinate(feat, 2, "lat")),
      lon |-> CoordStr(Coordinate(feat, 1, "lon")),
      raw |-> Raw(attrs) ]

\* number of uuid4() calls made for the first j features
RECURSIVE UuidCalls(_, _)
UuidCalls(features, j) ==
    IF j = 0 THEN 0
    ELSE UuidCalls(features, j - 1) + (IF NeedsUuid(features[j]) THEN 1 ELSE 0)

\* the loop over the features: one item per feature, in the order received;
\* `used` tokens were generated before the call
MapFeatures(features, used) ==
    [j \in 1..Len(features) |->
        MakeItem(features[j], Uuid4(used + UuidCalls(features, j)))]

(***************************************************************************)
(* convert_numbers: ints (and bools, which are ints to isinstance) become  *)
(* Decimal(str(obj)); everything else is kept.  An item has string fields  *)
(* and the dict `raw`.                                                     *)
(***************************************************************************)
\* Decimal(s) raises InvalidOperation when s is not a numeric literal
DecimalRaises(v) == v.k = "bool"

ConvertLeaf(v) == IF IsNumber(v) THEN DecimalV(PyStr(v)) ELSE v

ConvertRaises(item) ==
    \E key \in DOMAIN item.raw : DecimalRaises(item.raw[key])

convert_numbers(item) ==
    [item EXCEPT !.raw = [key \in DOMAIN item.raw |-> ConvertLeaf(item.raw[key])]]

(***************************************************************************)
(* The table: a function from the ids stored to the item stored under it.  *)
(***************************************************************************)
\* mutant of PutItemInto: an id already stored keeps its item
PutIfAbsent(st, item) ==
    [x \in DOMAIN st \cup {item.id} |-> IF x \in DOMAIN st THEN st[x] ELSE item]

\* mutant of PutItemInto: an update that keeps the `raw` the id held
PutMergeFields(st, item) ==
    [x \in DOMAIN st \cup {item.id} |->
        IF x # item.id THEN st[x]
        ELSE IF x \in DOMAIN st THEN [item EXCEPT !.raw = st[x].raw]
        ELSE item]

\* batch.put_item(Item=item): the whole item replaces what the id held
PutItemInto(st, item) ==
    [x \in DOMAIN st \cup {item.id} |-> IF x = item.id THEN item ELSE st[x]]

\* batch.delete_item(Key={"id": id})
DeleteItemFrom(st, id) == [x \in DOMAIN st \ {id} |-> st[x]]

\* number of tokens the two invocations can generate
MaxUuid == 2 * (IF MaxFeat > MaxFeatTwo THEN MaxFeat ELSE MaxFeatTwo)

\* the order in which a scan walks the keys (the table's hash order)
KeyOrder == <<"Z", "7", "A", "B">> \o [i \in 1..MaxUuid |-> Uuid4(i)]

Rank(id) == CHOOSE i \in 1..Len(KeyOrder) : KeyOrder[i] = id

\* no ExclusiveStartKey / no LastEvaluatedKey
NoKey == ""

\* the ids a scan starting after `last` still has to visit
Remaining(st, last) ==
    {id \in DOMAIN st : last = NoKey \/ Rank(id) > Rank(last)}

RECURSIVE InKeyOrder(_)
InKeyOrder(S) ==
    IF S = {} THEN <<>>
    ELSE LET first == CHOOSE x \in S : \A y \in S : Rank(x) <= Rank(y)
         IN <<first>> \o InKeyOrder(S \ {first})

\* the responses table.scan may give for ExclusiveStartKey = last: some
\* non-empty prefix of what remains; the final page may or may not carry a
\* LastEvaluatedKey (then one more, empty, page ends the enumeration)
ScanResponses(st, last) ==
    LET rest == InKeyOrder(Remaining(st, last)) IN
    IF rest = <<>> THEN {[Items |-> <<>>, LastEvaluatedKey |-> NoKey]}
    ELSE {[Items |-> SubSeq(rest, 1, k), LastEvaluatedKey |-> rest[k]] :
              k \in 1..Len(rest)}
         \cup {[Items |-> rest, LastEvaluatedKey |-> NoKey]}

(***************************************************************************)
(* The event and the limit (lambda_handler, lines 150-158).                *)
(* The limit parameter is a sequence of characters.                        *)
(***************************************************************************)
DigitChars == {"0", "1", "2", "3", "4", "5", "6", "7", "8", "9"}

DigitVal(c) ==
    CASE c = "0" -> 0 [] c = "1" -> 1 [] c = "2" -> 2 [] c = "3" -> 3
      [] c = "4" -> 4 [] c = "5" -> 5 [] c = "6" -> 6 [] c = "7" -> 7
      [] c = "8" -> 8 [] c = "9" -> 9

Unsigned(cs) == IF cs # <<>> /\ cs[1] \in {"-", "+"} THEN Tail(cs) ELSE cs

\* whether int(cs) returns (otherwise it raises ValueError)
IntParses(cs) ==
    /\ Unsigned(cs) # <<>>
    /\ \A i \in 1..Len(Unsigned(cs)) : Unsigned(cs)[i] \in DigitChars

RECURSIVE DigitsValue(_)
DigitsValue(ds) ==
    IF ds = <<>> THEN 0
    ELSE 10 * DigitsValue(SubSeq(ds, 1, Len(ds) - 1)) + DigitVal(ds[Len(ds)])

\* int(cs), where it parses
IntOf(cs) ==
    IF cs[1] = "-" THEN 0 - DigitsValue(Unsigned(cs)) ELSE DigitsValue(Unsigned(cs))

DefaultLimit == 10

\* An event is [isDict, qs]: qs is the dict under "queryStringParameters"
\* (empty when the key is missing or null), holding at most "limit".
ResolveLimit(ev) ==
    IF /\ ev.isDict
       /\ "limit" \in DOMAIN ev.qs
       /\ ev.qs["limit"] # <<>>
       /\ IntParses(ev.qs["limit"])
    THEN IntOf(ev.qs["limit"])
    ELSE DefaultLimit

(***************************************************************************)
(* The environment: what the feature service may return, which events      *)
(* trigger the handler, and what the table holds at the start.             *)
(***************************************************************************)
Feature(props, attrs) ==
    [properties |-> props, attributes |-> attrs, coordinates |-> <<>>]
\* the same with a geometry carrying the coordinate list cs
WithCoords(feat, cs) == [feat EXCEPT !.coordinates = cs]

\* code "A", numeric magnitude
FeatA5 == Feature([x \in {"code", "magnitud"} |->
                      IF x = "code" THEN StrV("A") ELSE IntV(5)], EmptyDict)
\* the same code again, with another magnitude and a null attribute
FeatA6 == Feature([x \in {"code", "magnitud", "ref"} |->
                      IF x = "code" THEN StrV("A")
                      ELSE IF x = "magnitud" THEN IntV(6) ELSE PyNone], EmptyDict)
\* no code, a numeric OBJECTID, attributes under "attributes"
FeatObj7 == Feature(EmptyDict, [x \in {"OBJECTID", "mag"} |->
                      IF x = "OBJECTID" THEN IntV(7) ELSE StrV("4.5")])
\* neither properties nor attributes
FeatBare == Feature(EmptyDict, EmptyDict)
\* code "B" and a boolean attribute
FeatBool == Feature([x \in {"code", "sentido"} |->
                      IF x = "code" THEN StrV("B") ELSE BoolV(TRUE)], EmptyDict)

FeatureSet == {FeatA5, FeatA6, FeatObj7, FeatBare, FeatBool}
\* the features served when two invocations share the table
FeatureSetTwo == {FeatA5, FeatA6, FeatObj7}

\* features varying the event time, the id fields and the coordinates
\* epoch 0 as the event time
ShDateZero == Feature(("code" :> StrV("A")) @@ ("fechaevento" :> IntV(0)), EmptyDict)
\* 1970-01-21T00:00:00.500 UTC
ShDateMs == Feature(("code" :> StrV("A")) @@ ("fechaevento" :> IntV(1728000500)),
                    EmptyDict)
\* one millisecond before the epoch, under the upper-case name
ShDateNeg == Feature(EmptyDict,
                     ("code" :> StrV("A")) @@ ("FECHAEVENTO" :> IntV(0 - 1)))
\* a date that is already text
ShDateStr == Feature(("code" :> StrV("A"))
                         @@ ("fechaevento" :> StrV("2024-05-01 10:00")), EmptyDict)
\* a number of milliseconds beyond year 9999
ShDateBig == Feature(("code" :> StrV("A"))
                         @@ ("fechaevento" :> BigIntV("1000000000000000000")),
                     EmptyDict)
\* code and objectid together
ShCodeObj == Feature(("code" :> StrV("B")) @@ ("objectid" :> IntV(7)), EmptyDict)
\* a lower-case objectid only
ShObjLower == Feature(("objectid" :> IntV(7)) @@ ("OBJECTID" :> StrV("B")), EmptyDict)
\* an OBJECTID of 0 and no code
ShObjZero == Feature(EmptyDict, ("OBJECTID" :> IntV(0)) @@ ("mag" :> IntV(4)))
\* a geometry and flat fields together
ShGeom == WithCoords(Feature(("code" :> StrV("A")) @@ ("lon" :> IntV(1))
                                 @@ ("lat" :> IntV(2)), EmptyDict),
                     <<IntV(0 - 77), IntV(0 - 12), IntV(30)>>)
\* a geometry on the equator at the prime meridian
ShGeomZero == WithCoords(Feature(("code" :> StrV("A")), EmptyDict),
                         <<IntV(0), IntV(0)>>)
\* flat fields only
ShFlat == Feature(("code" :> StrV("A")) @@ ("lon" :> IntV(0 - 77))
                      @@ ("lat" :> IntV(0 - 12)), EmptyDict)
\* flat fields only, on the prime meridian
ShFlatZero == Feature(("code" :> StrV("A")) @@ ("lon" :> IntV(0))
                          @@ ("lat" :> IntV(0 - 12)), EmptyDict)
\* a coordinate list of one value beside flat fields
ShGeomOne == WithCoords(Feature(("code" :> StrV("A")) @@ ("lon" :> IntV(1))
                                    @@ ("lat" :> IntV(2)), EmptyDict),
                        <<IntV(0 - 77)>>)

ShapeSet ==
    { ShDateZero, ShDateMs, ShDateNeg, ShDateStr, ShDateBig, ShCodeObj,
      ShObjLower, ShObjZero, ShGeom, ShGeomZero, ShFlat, ShFlatZero, ShGeomOne,
      FeatBare }

\* all feature lists of length at most n over the set F
SeqsUpTo(F, n) == UNION {[1..m -> F] : m \in 0..n}

NotADict == [isDict |-> FALSE, qs |-> [x \in {} |-> <<>>]]
\* a dict without (or with a null or empty) queryStringParameters
Scheduled == [isDict |-> TRUE, qs |-> [x \in {} |-> <<>>]]
WithLimit(cs) == [isDict |-> TRUE, qs |-> [x \in {"limit"} |-> cs]]

LimitParams ==
    { <<>>, <<"1">>, <<"1", "2">>, <<"0">>, <<"-", "3">>,
      <<"a", "b", "c">>, <<"2", ".", "5">> }

Events == {NotADict, Scheduled} \cup {WithLimit(cs) : cs \in LimitParams}

\* an item left in the table by an earlier run
OldItem(id) ==
    [id |-> id, fechaevento |-> "", magnitud |-> "3", lat |-> "", lon |-> "",
     raw |-> EmptyDict]
InitIds == {"A", "Z"}
InitStores == UNION {{[x \in S |-> OldItem(x)]} : S \in SUBSET InitIds}

TableName == "TablaWebScrapping2"

(***************************************************************************)
(* State.                                                                  *)
(***************************************************************************)
VARIABLES
    env,                 \* the environment of the run (never changes)
    DDB_TABLE,           \* module constants, read from os.environ
    PREF_REPLACE_TABLE,
    store,               \* the table
    uuids,               \* number of uuid4() tokens generated so far
    pc,                  \* per invocation: where it stands
    event,               \* the event it was invoked with
    limit,               \* local `limit`
    features,            \* the features of the response fetch received
    items,               \* local `items`
    ids,                 \* scan_all_ids: `ids`
    lastKey,             \* scan_all_ids: kwargs["ExclusiveStartKey"]
    n,                   \* iterations done of the current batch_writer loop
    response,            \* the value returned
    \* history, for stating the properties
    store0,              \* the table when the run began
    scans, deletes, puts,\* store calls issued per invocation
    raisedIn,            \* the phase whose exception ended the invocation
    ranAfter,            \* the invocations that had returned when it began
    lastPut,             \* per id: the invocation and item index of the last put
    storeAtReturn        \* the table when it returned

vars == << env, DDB_TABLE, PREF_REPLACE_TABLE, store, uuids, pc, event, limit,
           features, items, ids, lastKey, n, response, store0, scans, deletes,
           puts, raisedIn, ranAfter, lastPut, storeAtReturn >>

NoResponse == [statusCode |-> 0, keys |-> {}, error |-> "", count |-> 0, items |-> <<>>]

\* the dict returned with an error body
ErrorResponse(status, code, detailKey) ==
    [statusCode |-> status, keys |-> {"error", detailKey}, error |-> code,
     count |-> 0, items |-> <<>>]

\* the dict returned on success (lines 196-200)
OkResponse(its) ==
    [statusCode |-> 200, keys |-> {"count", "items"}, error |-> "",
     count |-> Len(its), items |-> its]

InitCommon ==
    /\ DDB_TABLE \in {TableName, ""}
    /\ PREF_REPLACE_TABLE \in BOOLEAN
    /\ store \in InitStores
    /\ store0 = store
    /\ uuids = 0
    /\ pc = [p \in Procs |-> "start"]
    /\ event = [p \in Procs |-> NotADict]
    /\ limit = [p \in Procs |-> DefaultLimit]
    /\ features = [p \in Procs |-> <<>>]
    /\ items = [p \in Procs |-> <<>>]
    /\ ids = [p \in Procs |-> <<>>]
    /\ lastKey = [p \in Procs |-> NoKey]
    /\ n = [p \in Procs |-> 0]
    /\ response = [p \in Procs |-> NoResponse]
    /\ scans = [p \in Procs |-> 0]
    /\ deletes = [p \in Procs |-> 0]
    /\ puts = [p \in Procs |-> 0]
    /\ raisedIn = [p \in Procs |-> "none"]
    /\ ranAfter = [p \in Procs |-> {}]
    /\ lastPut = [x \in {} |-> [p |-> 0, j |-> 0]]
    /\ storeAtReturn = [p \in Procs |-> EmptyDict]

\* one invocation, any event, any response
Init ==
    /\ env = [procs |-> {1}, shared |-> FALSE, shapes |-> FALSE, scheduled |-> FALSE]
    /\ InitCommon

\* two invocations triggered by the schedule, one after the other or
\* overlapping
InitTwo ==
    /\ env = [procs |-> Procs, shared |-> TRUE, shapes |-> FALSE, scheduled |-> TRUE]
    /\ InitCommon

\* one invocation, the service answering with the varied feature shapes
InitShapes ==
    /\ env = [procs |-> {1}, shared |-> FALSE, shapes |-> TRUE, scheduled |-> TRUE]
    /\ InitCommon

\* one invocation triggered by the schedule
InitLive ==
    /\ env = [procs |-> {1}, shared |-> FALSE, shapes |-> FALSE, scheduled |-> TRUE]
    /\ InitCommon

\* the events that may trigger an invocation in this environment
EventsOf(e) == IF e.scheduled THEN {Scheduled} ELSE Events

\* the feature lists the service may answer with in this environment
ResponsesOf(e) ==
    IF e.shapes THEN SeqsUpTo(ShapeSet, MaxShapeFeat)
    ELSE IF e.shared THEN SeqsUpTo(FeatureSetTwo, MaxFeatTwo)
    ELSE SeqsUpTo(FeatureSet, MaxFeat)

(***************************************************************************)
(* lambda_handler, one action per step.                                    *)
(***************************************************************************)
Returned(p) == pc[p] = "done"

\* `return {...}`: the invocation ends with response r and its locals are
\* gone; `phase` names the step whose exception was caught ("none" on
\* success)
Return(p, r, phase) ==
    /\ pc' = [pc EXCEPT ![p] = "done"]
    /\ response' = [response EXCEPT ![p] = r]
    /\ limit' = [limit EXCEPT ![p] = DefaultLimit]
    /\ features' = [features EXCEPT ![p] = <<>>]
    /\ items' = [items EXCEPT ![p] = <<>>]
    /\ ids' = [ids EXCEPT ![p] = <<>>]
    /\ lastKey' = [lastKey EXCEPT ![p] = NoKey]
    /\ n' = [n EXCEPT ![p] = 0]
    /\ raisedIn' = [raisedIn EXCEPT ![p] = phase]
    /\ storeAtReturn' = [storeAtReturn EXCEPT ![p] = store]

\* the runtime starts the handler
Triggered(p, ev) ==
    /\ p \in env.procs
    /\ pc[p] = "start"
    /\ ev \in EventsOf(env)
    /\ event' = [event EXCEPT ![p] = ev]
    /\ ranAfter' = [ranAfter EXCEPT ![p] = {q \in Procs \ {p} : Returned(q)}]

\* ensure_table raises ValueError (lines 140-148)
ConfigError(p) ==
    /\ \E ev \in Events : Triggered(p, ev)
    /\ DDB_TABLE = ""
    /\ Return(p, ErrorResponse(500, "CONFIG_ERROR", "message"), "config")
    /\ UNCHANGED << env, DDB_TABLE, PREF_REPLACE_TABLE, store, uuids, store0,
                    scans, deletes, puts, lastPut >>

\* ensure_table returns and the limit is resolved (lines 140-158)
Invoke(p) ==
    /\ DDB_TABLE # ""
    /\ \E ev \in Events :
         /\ Triggered(p, ev)
         /\ limit' = [limit EXCEPT ![p] = ResolveLimit(ev)]
    /\ pc' = [pc EXCEPT ![p] = "fetch"]
    /\ UNCHANGED << env, DDB_TABLE, PREF_REPLACE_TABLE, store, uuids, features,
                    items, ids, lastKey, n, response, store0, scans, deletes,
                    puts, raisedIn, lastPut, storeAtReturn >>

\* mutants of AfterFetch: the flag is ignored
AfterFetchNeverClears == "write"
AfterFetchAlwaysClears == "scan"

\* where the handler goes after a successful fetch (lines 181-187)
AfterFetch == IF PREF_REPLACE_TABLE THEN "scan" ELSE "write"

\* fetch_latest_sismos(limit) returns (lines 162-163, 48-88)
Fetch(p) ==
    /\ pc[p] = "fetch"
    /\ \E feats \in ResponsesOf(env) :
         /\ features' = [features EXCEPT ![p] = feats]
         /\ items' = [items EXCEPT ![p] = MapFeatures(feats, uuids)]
         /\ uuids' = uuids + UuidCalls(feats, Len(feats))
    /\ pc' = [pc EXCEPT ![p] = AfterFetch]
    /\ UNCHANGED << env, DDB_TABLE, PREF_REPLACE_TABLE, store, event, limit, ids,
                    lastKey, n, response, store0, scans, deletes, puts,
                    raisedIn, ranAfter, lastPut, storeAtReturn >>

\* the status the handler answers with when the fetch raises
FetchErrorStatus(kind) == IF kind = "HTTPError" THEN 502 ELSE 500

\* mutant of OnFetchError: the exception is logged and the handler goes on
\* with an empty batch
OnFetchErrorGoesOn(p, kind, phase) ==
    /\ pc' = [pc EXCEPT ![p] = AfterFetch]
    /\ raisedIn' = [raisedIn EXCEPT ![p] = phase]
    /\ UNCHANGED << response, limit, features, items, ids, lastKey, n,
                    storeAtReturn >>

\* the two `except` clauses around the fetch (lines 164-177): the handler
\* returns FETCH_ERROR at once
OnFetchError(p, kind, phase) ==
    Return(p, ErrorResponse(FetchErrorStatus(kind), "FETCH_ERROR", "detail"), phase)

\* resp.raise_for_status() raises requests.HTTPError (lines 164-170)
FetchHTTPError(p) ==
    /\ pc[p] = "fetch"
    /\ OnFetchError(p, "HTTPError", "fetch_http")
    /\ UNCHANGED << env, DDB_TABLE, PREF_REPLACE_TABLE, store, uuids, event,
                    store0, scans, deletes, puts, ranAfter, lastPut >>

\* requests.get raises (connection error, timeout) or the body does not
\* decode: any exception other than HTTPError (lines 171-177)
FetchTransportError(p) ==
    /\ pc[p] = "fetch"
    /\ OnFetchError(p, "Exception", "fetch_transport")
    /\ UNCHANGED << env, DDB_TABLE, PREF_REPLACE_TABLE, store, uuids, event,
                    store0, scans, deletes, puts, ranAfter, lastPut >>

\* mutant of ScanExhausted: the loop stops after the first page
ScanFirstPageOnly(page) == TRUE

\* mutant of ScanExhausted: the test of the continuation key is inverted
ScanExhaustedInverted(page) == page.LastEvaluatedKey # NoKey

\* scan_all_ids leaves its loop (`if not last: break`, lines 97-99)
ScanExhausted(page) == page.LastEvaluatedKey = NoKey

\* where the handler goes once the enumeration returned (lines 184-187):
\* clear_table_by_ids runs only for a non-empty list
AfterScan(got) == IF got # <<>> THEN "clear" ELSE "write"

\* one table.scan call of scan_all_ids and what the loop does with the page
\* (lines 94-100)
ScanPage(p) ==
    /\ pc[p] = "scan"
    /\ \E page \in ScanResponses(store, lastKey[p]) :
         LET got == ids[p] \o page.Items IN
         /\ ids' = [ids EXCEPT ![p] = got]
         /\ IF ScanExhausted(page)
            THEN /\ pc' = [pc EXCEPT ![p] = AfterScan(got)]
                 /\ UNCHANGED lastKey
            ELSE /\ lastKey' = [lastKey EXCEPT ![p] = page.LastEvaluatedKey]
                 /\ UNCHANGED pc
    /\ scans' = [scans EXCEPT ![p] = @ + 1]
    /\ UNCHANGED << env, DDB_TABLE, PREF_REPLACE_TABLE, store, uuids, event, limit,
                    features, items, n, response, store0, deletes, puts,
                    raisedIn, ranAfter, lastPut, storeAtReturn >>

\* mutant of OnStoreError: a failure of the clear phase is logged and
\* ignored, and the handler goes on to write
OnStoreErrorLenient(p, phase) ==
    IF phase \in {"scan", "delete"}
    THEN /\ pc' = [pc EXCEPT ![p] = "write"]
         /\ n' = [n EXCEPT ![p] = 0]
         /\ raisedIn' = [raisedIn EXCEPT ![p] = phase]
         /\ UNCHANGED << response, limit, features, items, ids, lastKey,
                         storeAtReturn >>
    ELSE Return(p, ErrorResponse(500, "DDB_ERROR", "detail"), phase)

\* `except Exception` around the store phase (lines 188-194): whatever the
\* clear or the write raised, the handler returns DDB_ERROR at once
OnStoreError(p, phase) ==
    Return(p, ErrorResponse(500, "DDB_ERROR", "detail"), phase)

\* table.scan raises
ScanRaise(p) ==
    /\ pc[p] = "scan"
    /\ OnStoreError(p, "scan")
    /\ UNCHANGED << env, DDB_TABLE, PREF_REPLACE_TABLE, store, uuids, event,
                    store0, scans, deletes, puts, ranAfter, lastPut >>

\* the ids clear_table_by_ids deletes, in order (lines 108-109)
IdsToDelete(enumerated) == enumerated

\* one delete of clear_table_by_ids reaches the table (lines 107-109)
DeleteItem(p) ==
    /\ pc[p] = "clear"
    /\ n[p] < Len(IdsToDelete(ids[p]))
    /\ store' = DeleteItemFrom(store, IdsToDelete(ids[p])[n[p] + 1])
    /\ deletes' = [deletes EXCEPT ![p] = @ + 1]
    /\ IF n[p] + 1 = Len(IdsToDelete(ids[p]))
       THEN /\ pc' = [pc EXCEPT ![p] = "write"]
            /\ n' = [n EXCEPT ![p] = 0]
       ELSE /\ n' = [n EXCEPT ![p] = @ + 1]
            /\ UNCHANGED pc
    /\ UNCHANGED << env, DDB_TABLE, PREF_REPLACE_TABLE, uuids, event, limit,
                    features, items, ids, lastKey, response, store0, scans, puts,
                    raisedIn, ranAfter, lastPut, storeAtReturn >>

\* the batched delete raises
DeleteRaise(p) ==
    /\ pc[p] = "clear"
    /\ OnStoreError(p, "delete")
    /\ UNCHANGED << env, DDB_TABLE, PREF_REPLACE_TABLE, store, uuids, event,
                    store0, scans, deletes, puts, ranAfter, lastPut >>

\* one put of upsert_items reaches the table (lines 130-133)
PutItem(p) ==
    /\ pc[p] = "write"
    /\ n[p] < Len(items[p])
    /\ ~ConvertRaises(items[p][n[p] + 1])
    /\ store' = PutItemInto(store, convert_numbers(items[p][n[p] + 1]))
    /\ lastPut' = [x \in DOMAIN lastPut \cup {items[p][n[p] + 1].id} |->
                      IF x = items[p][n[p] + 1].id
                      THEN [p |-> p, j |-> n[p] + 1] ELSE lastPut[x]]
    /\ puts' = [puts EXCEPT ![p] = @ + 1]
    /\ n' = [n EXCEPT ![p] = @ + 1]
    /\ UNCHANGED << env, DDB_TABLE, PREF_REPLACE_TABLE, uuids, pc, event, limit,
                    features, items, ids, lastKey, response, store0, scans,
                    deletes, raisedIn, ranAfter, storeAtReturn >>

\* convert_numbers or the batched put raises
PutRaise(p) ==
    /\ pc[p] = "write"
    /\ n[p] < Len(items[p])
    /\ OnStoreError(p, IF ConvertRaises(items[p][n[p] + 1]) THEN "convert" ELSE "put")
    /\ UNCHANGED << env, DDB_TABLE, PREF_REPLACE_TABLE, store, uuids, event,
                    store0, scans, deletes, puts, ranAfter, lastPut >>

\* upsert_items returned: the handler answers 200 (lines 196-200)
ReturnOk(p) ==
    /\ pc[p] = "write"
    /\ n[p] = Len(items[p])
    /\ Return(p, OkResponse(items[p]), "none")
    /\ UNCHANGED << env, DDB_TABLE, PREF_REPLACE_TABLE, store, uuids, event,
                    store0, scans, deletes, puts, ranAfter, lastPut >>

Next ==
    \E p \in Procs :
        \/ ConfigError(p)
        \/ Invoke(p)
        \/ Fetch(p)
        \/ FetchHTTPError(p)
        \/ FetchTransportError(p)
        \/ ScanPage(p)
        \/ ScanRaise(p)
        \/ DeleteItem(p)
        \/ DeleteRaise(p)
        \/ PutItem(p)
        \/ PutRaise(p)
        \/ ReturnOk(p)

\* one invocation on the table
Spec == Init /\ [][Next]_vars

\* two invocations sharing the table
SpecTwo == InitTwo /\ [][Next]_vars

\* one invocation, the service answering with the varied shapes
SpecShapes == InitShapes /\ [][Next]_vars

\* the steps of a running invocation: the handler is synchronous, and each
\* call it makes returns or raises
Run(p) ==
    \/ Fetch(p) \/ FetchHTTPError(p) \/ FetchTransportError(p)
    \/ ScanPage(p) \/ ScanRaise(p)
    \/ DeleteItem(p) \/ DeleteRaise(p)
    \/ PutItem(p) \/ PutRaise(p)
    \/ ReturnOk(p)

\* one invocation that is not suspended for ever between two steps
SpecLive == InitLive /\ [][Next]_vars /\ \A p \in Procs : WF_vars(Run(p))

(***************************************************************************)
(* Properties.                                                             *)
(***************************************************************************)
IdsOf(its) == {its[j].id : j \in 1..Len(its)}

\* the last item of the batch carrying the id
LastWithId(its, id) ==
    its[CHOOSE j \in 1..Len(its) :
            /\ its[j].id = id
            /\ \A m \in (j + 1)..Len(its) : its[m].id # id]

Succeeded(p) == Returned(p) /\ response[p].statusCode = 200

\* C1: in replace mode an invocation that returns 200 leaves the table
\* holding exactly the batch: the ids stored are the ids of the batch, each
\* with the (converted) item the batch carries for it, so every id stored
\* before and not in the batch is gone and an empty batch leaves the table
\* empty.
C1_ReplaceLeavesExactlyTheBatch ==
    \A p \in Procs :
        (PREF_REPLACE_TABLE /\ Succeeded(p)) =>
            /\ DOMAIN store = IdsOf(response[p].items)
            /\ \A id \in DOMAIN store :
                   store[id] = convert_numbers(LastWithId(response[p].items, id))
            /\ (DOMAIN store0 \ IdsOf(response[p].items)) \cap DOMAIN store = {}
            /\ response[p].items = <<>> => store = EmptyDict

\* a replace-mode run that succeeded on a table holding a stale id and an
\* id the batch carries again
C1_Witness ==
    /\ PREF_REPLACE_TABLE
    /\ Succeeded(1)
    /\ DOMAIN store0 = {"A", "Z"}
    /\ IdsOf(response[1].items) = {"A", "7"}

\* C2: in upsert mode an invocation issues no scan and no delete, every
\* record stored before stays stored, only ids of the batch are put, and a
\* record whose id was not put is unchanged; with an empty batch the table
\* is unchanged and the count reported is 0.
C2_UpsertLeavesOthersUntouched ==
    \A p \in Procs :
        ~PREF_REPLACE_TABLE =>
            /\ scans[p] = 0 /\ deletes[p] = 0
            /\ \A id \in DOMAIN store0 :
                   /\ id \in DOMAIN store
                   /\ id \notin DOMAIN lastPut => store[id] = store0[id]
            /\ pc[p] = "write" => DOMAIN lastPut \subseteq IdsOf(items[p])
            /\ Succeeded(p) => DOMAIN lastPut = IdsOf(response[p].items)
            /\ (Succeeded(p) /\ response[p].items = <<>>) =>
                   store = store0 /\ response[p].count = 0

\* an upsert-mode run that wrote a batch beside a record it did not touch
C2_Witness ==
    /\ ~PREF_REPLACE_TABLE
    /\ Succeeded(1)
    /\ puts[1] = 2
    /\ "Z" \in DOMAIN store0 /\ "Z" \notin DOMAIN lastPut
    /\ "A" \in DOMAIN store0 /\ "A" \in DOMAIN lastPut

\* C7: scan_all_ids follows LastEvaluatedKey to the end: whatever the split
\* into pages, while it scans it holds the ids up to the last key evaluated,
\* in page order, and when it returns it holds every id of the table; the
\* clear phase then deletes each of them, so the write phase starts on an
\* empty table.
C7_ScanFollowsContinuation ==
    \A p \in Procs :
        /\ pc[p] = "scan" =>
               ids[p] = InKeyOrder({id \in DOMAIN store0 :
                            lastKey[p] # NoKey /\ Rank(id) <= Rank(lastKey[p])})
        /\ pc[p] = "clear" =>
               /\ ids[p] = InKeyOrder(DOMAIN store0)
               /\ DOMAIN store = {ids[p][j] : j \in (n[p] + 1)..Len(ids[p])}
        /\ (PREF_REPLACE_TABLE /\ pc[p] = "write" /\ puts[p] = 0) =>
               /\ ids[p] = InKeyOrder(DOMAIN store0)
               /\ deletes[p] = Len(ids[p])
               /\ store = EmptyDict

\* an enumeration of two ids that took three pages, followed by the clear
C7_Witness ==
    /\ pc[1] = "write"
    /\ scans[1] = 3
    /\ Len(ids[1]) = 2
    /\ deletes[1] = 2

\* C10: when the enumeration or the batched delete raises, the invocation
\* has returned 500 with DDB_ERROR and has issued no put.
C10_ClearFailureIsFatal ==
    \A p \in Procs :
        raisedIn[p] \in {"scan", "delete"} =>
            /\ Returned(p)
            /\ puts[p] = 0
            /\ response[p].statusCode = 500
            /\ response[p].error = "DDB_ERROR"
            /\ response[p].keys = {"error", "detail"}

\* a delete that raised after one id of two was deleted
C10_Witness ==
    /\ raisedIn[1] = "delete"
    /\ deletes[1] = 1
    /\ Cardinality(DOMAIN store0) = 2
    /\ Cardinality(DOMAIN store) = 1

\* the invocation has fetched a batch and not yet returned
HoldsBatch(p) == pc[p] \in {"scan", "clear", "write"}

\* C3: writing the same batch twice in upsert mode (a second invocation,
\* begun after the first returned, that fetched the same batch): the table
\* equals the table after the first write, and each id of the batch holds the
\* item of the second write.
C3_UpsertTwiceIsIdempotent ==
    \A p, q \in Procs :
        ( /\ ~PREF_REPLACE_TABLE
          /\ p # q /\ Succeeded(p) /\ Succeeded(q)
          /\ p \in ranAfter[q]
          /\ response[p].items = response[q].items ) =>
            /\ store = storeAtReturn[p]
            /\ \A id \in IdsOf(response[q].items) :
                   /\ id \in DOMAIN store
                   /\ store[id] = convert_numbers(LastWithId(response[q].items, id))
                   /\ lastPut[id].p = q

\* the batch [A] written twice over a table that already held A
C3_Witness ==
    /\ ~PREF_REPLACE_TABLE
    /\ Succeeded(1) /\ Succeeded(2)
    /\ 1 \in ranAfter[2]
    /\ response[1].items = response[2].items
    /\ IdsOf(response[2].items) = {"A"}
    /\ "A" \in DOMAIN store0
    /\ puts[1] = 1 /\ puts[2] = 1

\* C4 (as claimed): for a positive limit, fetch returns at most `limit`
\* items, the j-th item being made from the j-th feature received.
C4_FetchReturnsAtMostLimit ==
    \A p \in Procs :
        (HoldsBatch(p) /\ limit[p] > 0) =>
            /\ Len(items[p]) <= limit[p]
            /\ \A j \in 1..Len(items[p]) :
                   items[p][j].raw = Raw(Attrs(features[p][j]))

\* C5 (as claimed): in a fetched batch every id is non-empty and no two
\* items share an id.
C5_IdsNonEmptyAndUnique ==
    \A p \in Procs :
        HoldsBatch(p) =>
            /\ \A j \in 1..Len(items[p]) : items[p][j].id # ""
            /\ \A j, m \in 1..Len(items[p]) :
                   j # m => items[p][j].id # items[p][m].id

\* C6 (as claimed): success answers 200 with count and the items written;
\* every fetch failure, transport failure included, answers 502 with an error
\* code and detail; every store or configuration failure answers 500 with an
\* error code and detail.
C6_ResponseFollowsOutcome ==
    \A p \in Procs :
        Returned(p) =>
            /\ raisedIn[p] = "none" =>
                   /\ response[p].statusCode = 200
                   /\ response[p].keys = {"count", "items"}
                   /\ response[p].count = Len(response[p].items)
                   /\ response[p].count = puts[p]
            /\ raisedIn[p] \in {"fetch_http", "fetch_transport"} =>
                   /\ response[p].statusCode = 502
                   /\ response[p].error = "FETCH_ERROR"
                   /\ "error" \in response[p].keys
            /\ raisedIn[p] \in {"config", "scan", "delete", "put", "convert"} =>
                   /\ response[p].statusCode = 500
                   /\ response[p].error \in {"CONFIG_ERROR", "DDB_ERROR"}
                   /\ "error" \in response[p].keys

\* the limit parameter of the event is a valid limit: a positive integer
ValidLimitParam(ev) ==
    /\ ev.isDict
    /\ "limit" \in DOMAIN ev.qs
    /\ IntParses(ev.qs["limit"])
    /\ IntOf(ev.qs["limit"]) >= 1

\* C8 (as claimed): fetch is called with a positive integer limit: the
\* parsed parameter when it is valid, 10 when it is absent or invalid; the
\* invocation does not fail on the parameter.
C8_FetchLimitIsPositive ==
    \A p \in Procs :
        pc[p] = "fetch" =>
            /\ limit[p] >= 1
            /\ limit[p] = IF ValidLimitParam(event[p])
                          THEN IntOf(event[p].qs["limit"]) ELSE 10

\* C9: after two upsert-mode invocations have both returned 200, however
\* their puts interleaved, every id of either batch is stored and holds
\* exactly the (converted) item of the put applied last to it, an item of one
\* writer as a whole; ids of neither batch are as they were.
C9_LastWriterWinsPerId ==
    ( /\ ~PREF_REPLACE_TABLE
      /\ Succeeded(1) /\ Succeeded(2) ) =>
        /\ \A id \in IdsOf(response[1].items) \cup IdsOf(response[2].items) :
               /\ id \in DOMAIN store
               /\ id \in DOMAIN lastPut
               /\ response[lastPut[id].p].items[lastPut[id].j].id = id
               /\ store[id] =
                      convert_numbers(response[lastPut[id].p].items[lastPut[id].j])
        /\ \A id \in DOMAIN store0 \
                     (IdsOf(response[1].items) \cup IdsOf(response[2].items)) :
               id \in DOMAIN store /\ store[id] = store0[id]

\* two overlapping invocations whose batches carry the same id with
\* different magnitudes; the put of the first was applied last
C9_Witness ==
    /\ ~PREF_REPLACE_TABLE
    /\ Succeeded(1) /\ Succeeded(2)
    /\ ranAfter[1] = {} /\ ranAfter[2] = {}
    /\ response[1].items # response[2].items
    /\ IdsOf(response[1].items) = {"A"} /\ IdsOf(response[2].items) = {"A"}
    /\ "A" \in DOMAIN store0
    /\ lastPut["A"].p = 1

\* C11: when the fetch raised, the invocation has returned without a single
\* scan, delete or put, and the table is as it was, whatever the mode.
C11_FetchFailureTouchesNothing ==
    \A p \in Procs :
        raisedIn[p] \in {"fetch_http", "fetch_transport"} =>
            /\ Returned(p)
            /\ scans[p] = 0 /\ deletes[p] = 0 /\ puts[p] = 0
            /\ store = store0
            /\ storeAtReturn[p] = store0

\* a transport failure in replace mode on a table that holds records
C11_Witness ==
    /\ PREF_REPLACE_TABLE
    /\ raisedIn[1] = "fetch_transport"
    /\ Returned(1)
    /\ DOMAIN store0 = {"A", "Z"}

\* the moves of the per-invocation state machine: START is "start",
\* FETCHING "fetch", CLEARING "scan" then "clear", WRITING "write"; the
\* terminal states are "done" with the phase that raised (or "none")
MachineMoves ==
    { <<"start", "fetch">>, <<"start", "done">>,
      <<"fetch", "scan">>, <<"fetch", "write">>, <<"fetch", "done">>,
      <<"scan", "clear">>, <<"scan", "write">>, <<"scan", "done">>,
      <<"clear", "write">>, <<"clear", "done">>,
      <<"write", "done">> }

\* the terminal state a phase may end in
TerminalOf(phase) ==
    CASE phase = "start" -> {"config"}
      [] phase = "fetch" -> {"fetch_http", "fetch_transport"}
      [] phase = "scan" -> {"scan"}
      [] phase = "clear" -> {"delete"}
      [] phase = "write" -> {"put", "convert", "none"}
      [] OTHER -> {}

MachineStep(p) ==
    /\ pc'[p] # pc[p] => <<pc[p], pc'[p]>> \in MachineMoves
    /\ (pc'[p] # pc[p] /\ pc'[p] = "done") => raisedIn'[p] \in TerminalOf(pc[p])
    \* the clearing phase is entered exactly when the fetch succeeded and the
    \* flag is set
    /\ (pc[p] = "fetch" /\ pc'[p] \in {"scan", "write"}) =>
           (pc'[p] = "scan" <=> PREF_REPLACE_TABLE)
    \* store calls belong to their phase, and every delete precedes every put
    /\ scans'[p] # scans[p] => (pc[p] = "scan" /\ puts[p] = 0)
    /\ deletes'[p] # deletes[p] => (pc[p] = "clear" /\ puts[p] = 0)
    /\ puts'[p] # puts[p] => pc[p] = "write"
    \* nothing happens after a terminal state
    /\ Returned(p) =>
           /\ pc'[p] = "done" /\ response'[p] = response[p]
           /\ scans'[p] = scans[p] /\ deletes'[p] = deletes[p]
           /\ puts'[p] = puts[p]

\* C12: every invocation (whose configuration resolved; a configuration
\* error ends it in START) moves along START, FETCHING, FETCH_FAILED or
\* FETCHED, the optional CLEARING, WRITING, WRITE_FAILED or DONE: clearing is
\* entered iff the flag is set and the fetch succeeded, every delete of an
\* invocation precedes its puts, the table changes only by a delete or put of
\* an invocation that has not returned, and nothing follows a terminal state.
C12_FollowsStateMachine ==
    [][ /\ \A p \in Procs : MachineStep(p)
        /\ store' # store =>
               \E p \in Procs :
                   /\ ~Returned(p)
                   /\ deletes'[p] # deletes[p] \/ puts'[p] # puts[p] ]_vars

\* an invocation that went through every phase and reached DONE
C12_Witness ==
    /\ PREF_REPLACE_TABLE
    /\ Succeeded(1)
    /\ scans[1] = 2 /\ deletes[1] = 2 /\ puts[1] = 2

\* C13: an invocation that has begun eventually returns a response, and the
\* pagination loop issues one scan per page, staying in the loop exactly
\* when the page carried a continuation key.
C13_InvocationTerminates ==
    /\ \A p \in Procs :
           (pc[p] \in {"fetch", "scan", "clear", "write"})
               ~> (Returned(p) /\ response[p].statusCode \in {200, 500, 502})
    /\ [][ \A p \in Procs :
               scans'[p] # scans[p] =>
                   /\ pc[p] = "scan"
                   /\ scans'[p] = scans[p] + 1
                   /\ pc'[p] = "scan" <=> lastKey'[p] # lastKey[p] ]_vars

\* an invocation that returned after three pages, two deletes and one put
C13_Witness ==
    /\ Returned(1)
    /\ response[1].statusCode = 200
    /\ scans[1] = 3 /\ deletes[1] = 2 /\ puts[1] = 1

\* the stored form of a leaf as claimed: a number becomes its exact decimal,
\* a string, a boolean or an empty string stays as it is
ExpectedLeaf(v) == IF v.k \in {"int", "bigint"} THEN DecimalV(PyStr(v)) ELSE v

ExpectedStored(item) ==
    [item EXCEPT !.raw = [key \in DOMAIN item.raw |-> ExpectedLeaf(item.raw[key])]]

\* C14 (as claimed): the write phase has issued one put per record handled,
\* in batch order; the item stored has the record's keys with every numeric
\* leaf as its exact decimal and every other leaf unchanged; the conversion
\* never fails.
C14_WriteConvertsEveryLeaf ==
    \A p \in Procs :
        /\ raisedIn[p] # "convert"
        /\ pc[p] = "write" =>
               /\ puts[p] = n[p]
               /\ \A j \in 1..n[p] :
                      LET id == items[p][j].id IN
                      /\ id \in DOMAIN lastPut
                      /\ (lastPut[id] = [p |-> p, j |-> j] /\ id \in DOMAIN store) =>
                             /\ store[id] = ExpectedStored(items[p][j])
                             /\ DOMAIN store[id].raw = DOMAIN items[p][j].raw

\* the feature has the field: the key is there and its value is not null
Has(attrs, key) == key \in DOMAIN attrs /\ attrs[key].k # "none"

\* the event time as claimed: by the shape of the source attribute
ExpectedEventTime(attrs) ==
    LET v == IF Has(attrs, "fechaevento") THEN attrs["fechaevento"]
             ELSE Get(attrs, "FECHAEVENTO")
    IN IF v.k = "none" THEN ""
       ELSE IF v.k = "int" THEN IsoFormat(v.n)
       ELSE PyStr(v)

\* C15 (as claimed): the event time of every record of a fetched batch is
\* the ISO-8601 string at UTC-5 for a numeric source value, 0 included (the
\* string form of the number when the conversion fails), the string form of
\* a non-numeric value, and the empty string for an absent value.
C15_EventTimeByShape ==
    \A p \in Procs :
        HoldsBatch(p) =>
            \A j \in 1..Len(items[p]) :
                items[p][j].fechaevento = ExpectedEventTime(Attrs(features[p][j]))

IdFields == <<"code", "objectid", "OBJECTID">>

HasIdField(attrs) == \E i \in 1..Len(IdFields) : Has(attrs, IdFields[i])

\* the first id field the feature has, in the priority order
FirstIdField(attrs) ==
    attrs[IdFields[CHOOSE i \in 1..Len(IdFields) :
                       /\ Has(attrs, IdFields[i])
                       /\ \A m \in 1..(i - 1) : ~Has(attrs, IdFields[m])]]

Tokens == {Uuid4(i) : i \in 1..MaxUuid}

\* C16 (as claimed): the id of every record of a fetched batch is the code
\* when the feature has one, else the objectid (in either case) when it has
\* one; it is a generated token only when the feature has neither.
C16_IdByPriority ==
    \A p \in Procs :
        HoldsBatch(p) =>
            \A j \in 1..Len(items[p]) :
                LET attrs == Attrs(features[p][j]) IN
                IF HasIdField(attrs)
                THEN items[p][j].id = PyStr(FirstIdField(attrs))
                ELSE items[p][j].id \in Tokens

\* lon (i = 1) and lat (i = 2) as claimed
ExpectedCoordinate(feat, i, key) ==
    IF Len(feat.coordinates) >= 2 THEN PyStr(feat.coordinates[i])
    ELSE IF Has(Attrs(feat), key) THEN PyStr(Attrs(feat)[key])
    ELSE ""

\* C17 (as claimed): lon and lat of every record of a fetched batch both
\* come from the geometry when it has a coordinate pair, else both from the
\* flat fields, else are empty; a value of 0 is kept.
C17_CoordinatesByPriority ==
    \A p \in Procs :
        HoldsBatch(p) =>
            \A j \in 1..Len(items[p]) :
                /\ items[p][j].lon = ExpectedCoordinate(features[p][j], 1, "lon")
                /\ items[p][j].lat = ExpectedCoordinate(features[p][j], 2, "lat")

\* no other invocation overlapped with p: each other one returned before p
\* began, or began after p returned, or has not begun
NonOverlapping(p) ==
    \A q \in Procs \ {p} :
        q \in ranAfter[p] \/ p \in ranAfter[q] \/ pc[q] = "start"

BothReplacedOverlapping(p, q) ==
    /\ p # q
    /\ PREF_REPLACE_TABLE
    /\ Succeeded(p) /\ Succeeded(q)
    /\ p \notin ranAfter[q] /\ q \notin ranAfter[p]

\* C19 (as claimed): after two overlapping replace-mode invocations have
\* both returned 200, (1) the invocation that was still changing the table
\* after the other returned finds its whole batch in the final table, and
\* (2) a record that was in the table when its writer returned, and that
\* nobody put again, is still in the table: the clear phase of the other
\* did not remove it.
C19_OverlappingReplaceKeepsWrites ==
    \A p, q \in Procs :
        BothReplacedOverlapping(p, q) =>
            /\ storeAtReturn[q] # store =>
                   \A id \in IdsOf(response[p].items) :
                       /\ id \in DOMAIN store
                       /\ store[id] = convert_numbers(LastWithId(response[p].items, id))
            /\ \A id \in DOMAIN storeAtReturn[q] :
                   (id \in DOMAIN lastPut /\ lastPut[id].p = q) =>
                       id \in DOMAIN store

====
